---- MODULE Spec2Model ----
(***************************************************************************)
(* Recursive (three-level) tic-tac-toe: the board model and the move       *)
(* engine of src/src/game/logic.ts, driven by a caller that submits moves  *)
(* and catches the engine's "Invalid move" error.                          *)
(***************************************************************************)
EXTENDS Integers, Sequences, FiniteSets, TLC

\* ---------------------------------------------------------------- values

\* JavaScript null as it appears in a cell, an owner or the winner field.
null == "null"

\* JavaScript null in the activeBoardPath field (the other value of that
\* field is a pair <<L3_index, L2_index>>; both are sequences here).
nullPath == << >>

Player == {"X", "O"}

Winner == {"X", "O", "DRAW", null}

CellValue == {"X", "O", null}

\* The nine positions of a grid ("grid: T[]; // 9 items").
Index == 0..8

\* A value is truthy in the engine's conditions (if (board.owner) ...) when
\* it is a non-empty string; the only falsy value that occurs is null.
\* What reading a property that an object does not have yields.
undefined == "undefined"

Truthy(v) == v \notin {null, undefined}

\* Mutant: the second diagonal is missing from the table.
WIN_PATTERNS_noAntiDiagonal ==
    << <<0, 1, 2>>, <<3, 4, 5>>, <<6, 7, 8>>,
       <<0, 3, 6>>, <<1, 4, 7>>, <<2, 5, 8>>,
       <<0, 4, 8>> >>

\* Mutant: the last column is missing from the table.
WIN_PATTERNS_noLastColumn ==
    << <<0, 1, 2>>, <<3, 4, 5>>, <<6, 7, 8>>,
       <<0, 3, 6>>, <<1, 4, 7>>,
       <<0, 4, 8>>, <<2, 4, 6>> >>

\* Rows, columns, diagonals, in the source's enumeration order.
WIN_PATTERNS ==
    << <<0, 1, 2>>, <<3, 4, 5>>, <<6, 7, 8>>,
       <<0, 3, 6>>, <<1, 4, 7>>, <<2, 5, 8>>,
       <<0, 4, 8>>, <<2, 4, 6>> >>

\* ------------------------------------------------------------ board model

\* A callback (index) => T is a function on the nine indices.
createBoard(level, initialContent) ==
    [level |-> level,
     owner |-> null,
     grid  |-> [i \in Index |-> initialContent[i]]]

createSmall == createBoard(1, [i \in Index |-> null])

createMedium == createBoard(2, [i \in Index |-> createSmall])

createLarge == createBoard(3, [i \in Index |-> createMedium])

\* Mutant: the game starts pinned to the centre board.
createInitialGameState_centre ==
    [board           |-> createLarge,
     currentPlayer   |-> "X",
     activeBoardPath |-> <<4, 4>>,
     winner          |-> null]

\* Mutant: O moves first.
createInitialGameState_oStarts ==
    [board           |-> createLarge,
     currentPlayer   |-> "O",
     activeBoardPath |-> nullPath,
     winner          |-> null]

createInitialGameState ==
    [board           |-> createLarge,
     currentPlayer   |-> "X",
     activeBoardPath |-> nullPath,
     winner          |-> null]

\* The items of a grid, the arguments its getOwner callback is called on.
Items(grid) == {grid[i] : i \in Index}

\* The cell of a small board is its own owner: (cell) => cell as Winner.
cellOwner(grid) == [cell \in Items(grid) |-> cell]

\* The owner of a sub-board: (b) => b.owner.
boardOwner(grid) == [b \in Items(grid) |-> b.owner]

\* checkWinner: the first pattern, in WIN_PATTERNS order, whose three
\* children have the same X/O owner decides; otherwise DRAW when every
\* child has an owner; otherwise null.  A cell that is a string is its own
\* owner, which is also what the small board's getOwner returns for it.
\* Mutant: three DRAW owners on a pattern count as a decision.
checkWinner_drawCounts(grid, getOwner) ==
    LET ownerAt(i) == getOwner[grid[i]]
        complete(k) ==
            LET ownerA == ownerAt(WIN_PATTERNS[k][1])
                ownerB == ownerAt(WIN_PATTERNS[k][2])
                ownerC == ownerAt(WIN_PATTERNS[k][3])
            IN  /\ Truthy(ownerA)
                /\ ownerA = ownerB
                /\ ownerA = ownerC
        hits == {k \in 1..Len(WIN_PATTERNS) : complete(k)}
        isFull == \A i \in Index : ownerAt(i) # null
    IN  IF hits # {}
        THEN LET first == CHOOSE k \in hits : \A j \in hits : k <= j
             IN  ownerAt(WIN_PATTERNS[first][1])
        ELSE IF isFull THEN "DRAW" ELSE null

checkWinner(grid, getOwner) ==
    LET ownerAt(i) == getOwner[grid[i]]
        complete(k) ==
            LET ownerA == ownerAt(WIN_PATTERNS[k][1])
                ownerB == ownerAt(WIN_PATTERNS[k][2])
                ownerC == ownerAt(WIN_PATTERNS[k][3])
            IN  /\ Truthy(ownerA)
                /\ ownerA # "DRAW"
                /\ ownerA = ownerB
                /\ ownerA = ownerC
        hits == {k \in 1..Len(WIN_PATTERNS) : complete(k)}
        isFull == \A i \in Index : ownerAt(i) # null
    IN  IF hits # {}
        THEN LET first == CHOOSE k \in hits : \A j \in hits : k <= j
             IN  ownerAt(WIN_PATTERNS[first][1])
        ELSE IF isFull THEN "DRAW" ELSE null

\* ------------------------------------------------------------ move engine

\* Mutant: the owner is recomputed on every move, also when already decided.
updateSmallBoard_recompute(board, index, player) ==
    IF board.grid[index] # null
    THEN board
    ELSE LET newGrid == [board.grid EXCEPT ![index] = player]
         IN  [board EXCEPT !.grid = newGrid,
                           !.owner = checkWinner(newGrid, cellOwner(newGrid))]

\* Mutant: the new grid is built empty instead of copied from the old one.
updateSmallBoard_freshGrid(board, index, player) ==
    IF board.grid[index] # null
    THEN board
    ELSE LET newGrid  == [i \in Index |-> IF i = index THEN player ELSE null]
             newOwner == IF Truthy(board.owner)
                         THEN board.owner
                         ELSE checkWinner(newGrid, cellOwner(newGrid))
         IN  [board EXCEPT !.grid = newGrid, !.owner = newOwner]

\* Mutant: the owner is computed on the grid as it was before the mark.
updateSmallBoard_ownerBeforeMark(board, index, player) ==
    IF board.grid[index] # null
    THEN board
    ELSE LET newGrid  == [board.grid EXCEPT ![index] = player]
             newOwner == IF Truthy(board.owner)
                         THEN board.owner
                         ELSE checkWinner(board.grid, cellOwner(board.grid))
         IN  [board EXCEPT !.grid = newGrid, !.owner = newOwner]

updateSmallBoard(board, index, player) ==
    IF board.grid[index] # null
    THEN board
    ELSE LET newGrid  == [board.grid EXCEPT ![index] = player]
             newOwner == IF Truthy(board.owner)
                         THEN board.owner
                         ELSE checkWinner(newGrid, cellOwner(newGrid))
         IN  [board EXCEPT !.grid = newGrid, !.owner = newOwner]

\* Mutant: a medium board takes the owner of the small board just played.
updateMediumBoard_inheritsChild(board, l2_idx, l1_idx, player) ==
    LET newSubBoard == updateSmallBoard(board.grid[l2_idx], l1_idx, player)
        newGrid     == [board.grid EXCEPT ![l2_idx] = newSubBoard]
        newOwner    == IF Truthy(board.owner)
                       THEN board.owner
                       ELSE newSubBoard.owner
    IN  [board EXCEPT !.grid = newGrid, !.owner = newOwner]

\* Mutant: the updated small board is also stored in the next slot.
updateMediumBoard_dupChild(board, l2_idx, l1_idx, player) ==
    LET newSubBoard == updateSmallBoard(board.grid[l2_idx], l1_idx, player)
        newGrid     == [board.grid EXCEPT ![l2_idx] = newSubBoard,
                                          ![(l2_idx + 1) % 9] = newSubBoard]
        newOwner    == IF Truthy(board.owner)
                       THEN board.owner
                       ELSE checkWinner(newGrid, boardOwner(newGrid))
    IN  [board EXCEPT !.grid = newGrid, !.owner = newOwner]

\* Mutant: the owner is computed on the grid as it was before the move.
updateMediumBoard_preMoveGrid(board, l2_idx, l1_idx, player) ==
    LET newSubBoard == updateSmallBoard(board.grid[l2_idx], l1_idx, player)
        newGrid     == [board.grid EXCEPT ![l2_idx] = newSubBoard]
        newOwner    == IF Truthy(board.owner)
                       THEN board.owner
                       ELSE checkWinner(board.grid, boardOwner(board.grid))
    IN  [board EXCEPT !.grid = newGrid, !.owner = newOwner]

updateMediumBoard(board, l2_idx, l1_idx, player) ==
    LET newSubBoard == updateSmallBoard(board.grid[l2_idx], l1_idx, player)
        newGrid     == [board.grid EXCEPT ![l2_idx] = newSubBoard]
        newOwner    == IF Truthy(board.owner)
                       THEN board.owner
                       ELSE checkWinner(newGrid, boardOwner(newGrid))
    IN  [board EXCEPT !.grid = newGrid, !.owner = newOwner]

\* Mutant: the root's owner is computed on the grid as it was before the
\* move.
updateLargeBoard_preMoveGrid(board, l3_idx, l2_idx, l1_idx, player) ==
    LET newSubBoard == updateMediumBoard(board.grid[l3_idx],
                                         l2_idx, l1_idx, player)
        newGrid     == [board.grid EXCEPT ![l3_idx] = newSubBoard]
        newOwner    == IF Truthy(board.owner)
                       THEN board.owner
                       ELSE checkWinner(board.grid, boardOwner(board.grid))
    IN  [board EXCEPT !.grid = newGrid, !.owner = newOwner]

\* Mutant: the updated medium board is not stored in the new grid.
updateLargeBoard_dropsChild(board, l3_idx, l2_idx, l1_idx, player) ==
    LET newSubBoard == updateMediumBoard(board.grid[l3_idx],
                                         l2_idx, l1_idx, player)
        newGrid     == board.grid
        newOwner    == IF Truthy(board.owner)
                       THEN board.owner
                       ELSE checkWinner(newGrid, boardOwner(newGrid))
    IN  [board EXCEPT !.grid = newGrid, !.owner = newOwner]

updateLargeBoard(board, l3_idx, l2_idx, l1_idx, player) ==
    LET newSubBoard == updateMediumBoard(board.grid[l3_idx], l2_idx, l1_idx, player)
        newGrid     == [board.grid EXCEPT ![l3_idx] = newSubBoard]
        newOwner    == IF Truthy(board.owner)
                       THEN board.owner
                       ELSE checkWinner(newGrid, boardOwner(newGrid))
    IN  [board EXCEPT !.grid = newGrid, !.owner = newOwner]

\* Mutant: no test for a concluded game.
isValidMove_noTerminal(gameState, move) ==
    LET l3 == move.path[1]
        l2 == move.path[2]
        l1 == move.path[3]
        large  == gameState.board
        medium == large.grid[l3]
        small  == medium.grid[l2]
        cell   == small.grid[l1]
    IN  IF move.player # gameState.currentPlayer THEN FALSE
        ELSE IF /\ gameState.activeBoardPath # nullPath
                /\ \/ l3 # gameState.activeBoardPath[1]
                   \/ l2 # gameState.activeBoardPath[2]
             THEN FALSE
        ELSE IF cell # null THEN FALSE
        ELSE TRUE

\* Mutant: the active-board constraint is not enforced.
isValidMove_noConstraint(gameState, move) ==
    LET l3 == move.path[1]
        l2 == move.path[2]
        l1 == move.path[3]
        large  == gameState.board
        medium == large.grid[l3]
        small  == medium.grid[l2]
        cell   == small.grid[l1]
    IN  IF Truthy(gameState.winner) THEN FALSE
        ELSE IF move.player # gameState.currentPlayer THEN FALSE
        ELSE IF Truthy(large.owner) THEN FALSE
        ELSE IF cell # null THEN FALSE
        ELSE TRUE

\* Mutant: the conventional rule, a decided board is closed to play.
isValidMove_ownedClosed(gameState, move) ==
    LET l3 == move.path[1]
        l2 == move.path[2]
        l1 == move.path[3]
        large  == gameState.board
        medium == large.grid[l3]
        small  == medium.grid[l2]
        cell   == small.grid[l1]
    IN  IF Truthy(gameState.winner) THEN FALSE
        ELSE IF move.player # gameState.currentPlayer THEN FALSE
        ELSE IF /\ gameState.activeBoardPath # nullPath
                /\ \/ l3 # gameState.activeBoardPath[1]
                   \/ l2 # gameState.activeBoardPath[2]
             THEN FALSE
        ELSE IF Truthy(large.owner) THEN FALSE
        ELSE IF Truthy(medium.owner) \/ Truthy(small.owner) THEN FALSE
        ELSE IF cell # null THEN FALSE
        ELSE TRUE

\* Mutant: under free play only small boards without an owner are open.
isValidMove_freePlayOwnedClosed(gameState, move) ==
    LET l3 == move.path[1]
        l2 == move.path[2]
        l1 == move.path[3]
        large  == gameState.board
        medium == large.grid[l3]
        small  == medium.grid[l2]
        cell   == small.grid[l1]
    IN  IF Truthy(gameState.winner) THEN FALSE
        ELSE IF move.player # gameState.currentPlayer THEN FALSE
        ELSE IF /\ gameState.activeBoardPath # nullPath
                /\ \/ l3 # gameState.activeBoardPath[1]
                   \/ l2 # gameState.activeBoardPath[2]
             THEN FALSE
        ELSE IF Truthy(large.owner) THEN FALSE
        ELSE IF gameState.activeBoardPath = nullPath /\ Truthy(small.owner)
             THEN FALSE
        ELSE IF cell # null THEN FALSE
        ELSE TRUE

isValidMove(gameState, move) ==
    LET l3 == move.path[1]
        l2 == move.path[2]
        l1 == move.path[3]
        large  == gameState.board
        medium == large.grid[l3]
        small  == medium.grid[l2]
        cell   == small.grid[l1]
    IN  IF Truthy(gameState.winner) THEN FALSE
        ELSE IF move.player # gameState.currentPlayer THEN FALSE
        ELSE IF /\ gameState.activeBoardPath # nullPath
                /\ \/ l3 # gameState.activeBoardPath[1]
                   \/ l2 # gameState.activeBoardPath[2]
             THEN FALSE
        ELSE IF Truthy(large.owner) THEN FALSE
        ELSE IF cell # null THEN FALSE
        ELSE TRUE

\* What applyMove yields instead of a state when it throws.
InvalidMove == [error |-> "Invalid move"]

\* const nextPlayer = gameState.currentPlayer === 'X' ? 'O' : 'X';
\* Mutant: the turn is not handed over.
nextPlayer_same(gameState) == gameState.currentPlayer

nextPlayer(gameState) ==
    IF gameState.currentPlayer = "X" THEN "O" ELSE "X"

\* The full-target test of applyMove, on the small board the move points
\* to: board.grid[l2].grid[l1].grid.every(c => c !== null).
isTargetFull(board, l2, l1) ==
    \A c \in Index : board.grid[l2].grid[l1].grid[c] # null

\* Mutant: the next constraint is built from the wrong pair of indices.
nextActivePath_swapped(newBoard, l2, l1) ==
    IF isTargetFull(newBoard, l2, l1) THEN nullPath ELSE <<l1, l2>>

\* Steps 2 and 3 of applyMove: [l2, l1], or null when that board is full.
\* Mutant: the constraint is set also when the target board is full.
nextActivePath_neverFree(newBoard, l2, l1) == <<l2, l1>>

nextActivePath(newBoard, l2, l1) ==
    IF isTargetFull(newBoard, l2, l1) THEN nullPath ELSE <<l2, l1>>

\* Mutant: no validity check, the move is applied whatever it is.
applyMove_unchecked(gameState, move) ==
    LET l3 == move.path[1]
        l2 == move.path[2]
        l1 == move.path[3]
        newBoard == updateLargeBoard(gameState.board, l3, l2, l1,
                                     gameState.currentPlayer)
    IN  [board           |-> newBoard,
         currentPlayer   |-> nextPlayer(gameState),
         activeBoardPath |-> nextActivePath(newBoard, l2, l1),
         winner          |-> newBoard.owner]

\* Mutant: the target is tested for fullness on the board before the move.
applyMove_staleTarget(gameState, move) ==
    IF ~isValidMove(gameState, move)
    THEN InvalidMove
    ELSE LET l3 == move.path[1]
             l2 == move.path[2]
             l1 == move.path[3]
             newBoard == updateLargeBoard(gameState.board, l3, l2, l1,
                                          gameState.currentPlayer)
         IN  [board           |-> newBoard,
              currentPlayer   |-> nextPlayer(gameState),
              activeBoardPath |-> nextActivePath(gameState.board, l2, l1),
              winner          |-> newBoard.owner]

\* Mutant: winner is read from the board before the move.
applyMove_staleWinner(gameState, move) ==
    IF ~isValidMove(gameState, move)
    THEN InvalidMove
    ELSE LET l3 == move.path[1]
             l2 == move.path[2]
             l1 == move.path[3]
             newBoard == updateLargeBoard(gameState.board, l3, l2, l1,
                                          gameState.currentPlayer)
         IN  [board           |-> newBoard,
              currentPlayer   |-> nextPlayer(gameState),
              activeBoardPath |-> nextActivePath(newBoard, l2, l1),
              winner          |-> gameState.board.owner]

applyMove(gameState, move) ==
    IF ~isValidMove(gameState, move)
    THEN InvalidMove
    ELSE LET l3 == move.path[1]
             l2 == move.path[2]
             l1 == move.path[3]
             newBoard == updateLargeBoard(gameState.board, l3, l2, l1,
                                          gameState.currentPlayer)
         IN  [board           |-> newBoard,
              currentPlayer   |-> nextPlayer(gameState),
              activeBoardPath |-> nextActivePath(newBoard, l2, l1),
              winner          |-> newBoard.owner]

\* Every move a caller can submit: a path in [0,8]^3 and a player.
Moves == [path : Index \X Index \X Index, player : Player]

\* ------------------------------------------------------- recorded games
\* Complete games and openings, each a sequence of paths played alternately
\* by X and O from the initial state.  They steer the exploration to the
\* deep positions (a full small board, free play, a decided root); every
\* move of a game goes through isValidMove and applyMove like any other.

\* Small board (0,0) is won by X, O then completes a line inside it, the board
\* fills up; O wins small board (0,6); a move pointing at the full board
\* gives free play, and O plays into the board it already owns.
ScriptFill ==
    <<
       <<0,0,0>>, <<0,0,1>>, <<0,1,0>>, <<1,0,0>>, <<0,0,2>>, <<0,2,0>>, <<2,0,0>>, <<0,0,4>>,
       <<0,4,0>>, <<4,0,0>>, <<0,0,5>>, <<0,5,0>>, <<5,0,0>>, <<0,0,3>>, <<0,3,0>>, <<3,0,0>>,
       <<0,0,8>>, <<0,8,0>>, <<8,0,0>>, <<0,0,7>>, <<0,7,0>>, <<7,0,0>>, <<0,0,6>>, <<0,6,3>>,
       <<6,3,0>>, <<3,0,6>>, <<0,6,1>>, <<6,1,0>>, <<1,0,6>>, <<0,6,4>>, <<6,4,0>>, <<4,0,6>>,
       <<0,6,2>>, <<6,2,0>>, <<2,0,6>>, <<0,6,5>>, <<6,5,6>>, <<5,6,0>>, <<6,0,0>>, <<0,6,0>>
    >>

\* Small board (0,0) fills up without a line; its last cell is (0,0,0), the
\* move that points back at the board it is played in.
ScriptSelfFill ==
    <<
       <<0,0,2>>, <<0,2,0>>, <<2,0,0>>, <<0,0,1>>, <<0,1,0>>, <<1,0,0>>, <<0,0,3>>, <<0,3,0>>,
       <<3,0,0>>, <<0,0,4>>, <<0,4,0>>, <<4,0,0>>, <<0,0,7>>, <<0,7,0>>, <<7,0,0>>, <<0,0,5>>,
       <<0,5,0>>, <<5,0,0>>, <<0,0,8>>, <<0,8,0>>, <<8,0,0>>, <<0,0,6>>, <<0,6,0>>, <<6,0,0>>,
       <<0,0,0>>
    >>

\* X wins the root board with its 27th mark.
ScriptWinX ==
    <<
       <<0,3,2>>, <<3,2,5>>, <<2,5,2>>, <<5,2,5>>, <<2,5,1>>, <<5,1,5>>, <<1,5,2>>, <<5,2,4>>,
       <<2,4,2>>, <<4,2,5>>, <<2,5,0>>, <<5,0,5>>, <<0,5,2>>, <<5,2,3>>, <<2,3,2>>, <<3,2,4>>,
       <<2,4,1>>, <<4,1,5>>, <<1,5,1>>, <<5,1,4>>, <<1,4,2>>, <<4,2,4>>, <<2,4,0>>, <<4,0,5>>,
       <<0,5,1>>, <<5,1,3>>, <<1,3,2>>, <<3,2,3>>, <<2,3,1>>, <<3,1,5>>, <<1,5,0>>, <<5,0,4>>,
       <<0,4,2>>, <<4,2,3>>, <<2,3,0>>, <<3,0,5>>, <<0,5,0>>, <<5,0,3>>, <<0,3,1>>, <<3,1,4>>,
       <<1,4,1>>, <<4,1,4>>, <<1,4,0>>, <<4,0,4>>, <<0,4,1>>, <<4,1,3>>, <<1,3,1>>, <<3,1,3>>,
       <<1,3,0>>, <<3,0,4>>, <<0,4,0>>, <<4,0,3>>, <<0,3,0>>
    >>

\* O wins the root board.
ScriptWinO ==
    <<
       <<8,0,3>>, <<0,3,2>>, <<3,2,5>>, <<2,5,2>>, <<5,2,5>>, <<2,5,1>>, <<5,1,5>>, <<1,5,2>>,
       <<5,2,4>>, <<2,4,2>>, <<4,2,5>>, <<2,5,0>>, <<5,0,5>>, <<0,5,2>>, <<5,2,3>>, <<2,3,2>>,
       <<3,2,4>>, <<2,4,1>>, <<4,1,5>>, <<1,5,1>>, <<5,1,4>>, <<1,4,2>>, <<4,2,4>>, <<2,4,0>>,
       <<4,0,5>>, <<0,5,1>>, <<5,1,3>>, <<1,3,2>>, <<3,2,3>>, <<2,3,1>>, <<3,1,5>>, <<1,5,0>>,
       <<5,0,4>>, <<0,4,2>>, <<4,2,3>>, <<2,3,0>>, <<3,0,5>>, <<0,5,0>>, <<5,0,3>>, <<0,3,1>>,
       <<3,1,4>>, <<1,4,1>>, <<4,1,4>>, <<1,4,0>>, <<4,0,4>>, <<0,4,1>>, <<4,1,3>>, <<1,3,1>>,
       <<3,1,3>>, <<1,3,0>>, <<3,0,4>>, <<0,4,0>>, <<4,0,3>>, <<0,3,0>>
    >>

\* Every medium board is won and no line of medium boards has one owner:
\* the root board is drawn.
ScriptDraw ==
    <<
       <<2,2,2>>, <<2,2,8>>, <<2,8,8>>, <<8,8,4>>, <<8,4,2>>, <<4,2,5>>, <<2,5,1>>, <<5,1,1>>,
       <<1,1,6>>, <<1,6,1>>, <<6,1,8>>, <<1,8,3>>, <<8,3,8>>, <<3,8,4>>, <<8,4,4>>, <<4,4,8>>,
       <<4,8,7>>, <<8,7,7>>, <<7,7,5>>, <<7,5,6>>, <<5,6,0>>, <<6,0,3>>, <<0,3,4>>, <<3,4,1>>,
       <<4,1,8>>, <<1,8,4>>, <<8,4,6>>, <<4,6,4>>, <<6,4,6>>, <<4,6,2>>, <<6,2,8>>, <<2,8,5>>,
       <<8,5,0>>, <<5,0,4>>, <<0,4,2>>, <<4,2,8>>, <<2,8,6>>, <<8,6,6>>, <<6,6,0>>, <<6,0,0>>,
       <<0,0,2>>, <<0,2,8>>, <<2,8,7>>, <<8,7,4>>, <<7,4,4>>, <<4,4,6>>, <<4,6,0>>, <<6,0,6>>,
       <<0,6,8>>, <<6,8,6>>, <<8,6,8>>, <<6,8,4>>, <<8,4,0>>, <<4,0,4>>, <<0,4,0>>, <<4,0,3>>,
       <<0,3,8>>, <<3,8,3>>, <<8,3,5>>, <<3,5,1>>, <<5,1,7>>, <<1,7,1>>, <<7,1,6>>, <<1,6,2>>,
       <<6,2,0>>, <<2,0,3>>, <<0,3,0>>, <<3,0,4>>, <<0,4,1>>, <<4,1,5>>, <<1,5,4>>, <<5,4,4>>,
       <<4,4,2>>, <<4,2,2>>, <<2,2,1>>, <<2,1,4>>, <<1,4,6>>, <<4,6,6>>, <<6,6,4>>, <<6,4,2>>,
       <<4,2,3>>, <<2,3,1>>, <<3,1,2>>, <<1,2,2>>, <<2,2,0>>, <<2,0,5>>, <<0,5,6>>, <<5,6,5>>,
       <<6,5,2>>, <<5,2,3>>, <<2,3,3>>, <<3,3,1>>, <<3,1,8>>, <<1,8,5>>, <<8,5,8>>, <<5,8,5>>,
       <<8,5,4>>, <<5,4,6>>, <<4,6,8>>, <<6,8,2>>, <<8,2,3>>, <<2,3,4>>, <<3,4,3>>, <<4,3,7>>,
       <<3,7,4>>, <<7,4,1>>, <<4,1,6>>, <<1,6,0>>, <<6,0,7>>, <<0,7,7>>, <<7,7,2>>, <<7,2,5>>,
       <<2,5,2>>, <<5,2,4>>, <<2,4,4>>, <<4,4,7>>, <<4,7,3>>, <<7,3,1>>, <<3,1,5>>, <<1,5,5>>,
       <<5,5,6>>, <<5,6,3>>, <<6,3,7>>, <<3,7,7>>, <<7,7,8>>, <<7,8,3>>, <<8,3,2>>, <<3,2,5>>,
       <<2,5,0>>, <<5,0,5>>, <<0,5,3>>, <<5,3,4>>, <<3,4,5>>, <<4,5,5>>, <<5,5,2>>, <<5,2,5>>,
       <<2,5,4>>, <<5,4,2>>, <<4,2,7>>, <<2,7,1>>, <<7,1,7>>, <<1,7,2>>, <<7,2,3>>, <<2,3,7>>,
       <<3,7,0>>, <<7,0,5>>, <<0,5,0>>, <<5,0,6>>, <<0,6,4>>, <<6,4,5>>, <<4,5,6>>, <<5,6,4>>,
       <<6,4,7>>, <<4,7,4>>, <<7,4,5>>, <<4,5,7>>, <<5,7,7>>, <<7,7,4>>, <<7,4,3>>, <<4,3,4>>,
       <<3,4,4>>, <<4,4,1>>, <<4,1,7>>, <<1,7,0>>, <<7,0,3>>, <<0,3,7>>, <<3,7,8>>, <<7,8,6>>,
       <<8,6,4>>, <<6,4,8>>, <<4,8,1>>, <<8,1,5>>, <<1,5,7>>, <<5,7,1>>, <<7,1,8>>
    >>

Scripts == <<ScriptFill, ScriptSelfFill, ScriptWinX, ScriptWinO, ScriptDraw>>

\* Moves explored beyond the recorded games.
MaxFree == 0

\* The recorded games of which the first n moves are exactly the moves
\* played so far continue with these paths.
Continues(ids, n, path) ==
    {s \in ids : n < Len(Scripts[s]) /\ Scripts[s][n + 1] = path}

\* ------------------------------------------------------------ the system

NoMove == [path |-> << >>, player |-> null]

VARIABLES
    gameState,   \* the caller's current GameState
    outcome,     \* what the last call of applyMove did: "none", "applied", "threw"
    lastMove,    \* history: the last move applyMove accepted
    ply,         \* history: the number of accepted moves
    following,   \* exploration: the recorded games the play has followed so far
    free         \* exploration: the accepted moves made after leaving them

vars == <<gameState, outcome, lastMove, ply, following, free>>

\* The state of the other specifications of this module; each specification
\* leaves the variables of the others at rest.
VARIABLES
    cwGrid,      \* checkWinner: the grid handed to it
    cwKind,      \* checkWinner: "cells" for a small board, "boards" otherwise
    cwResult     \* checkWinner: what it returned, "pending" before the call

cwVars == <<cwGrid, cwKind, cwResult>>

CheckWinnerAtRest ==
    /\ cwGrid = << >>
    /\ cwKind = "none"
    /\ cwResult = "none"

VARIABLES
    peerState,   \* session: each participant's local gameState
    status,      \* session: each participant's isMultiplayer/connectionStatus
    captured,    \* session: the gameState held by startHost's callbacks
    channel,     \* session: per participant, the messages sent to it, in order
    netLast,     \* history: what the last step of the session did
    staleOpen,   \* history: the connect snapshot differed from the host's state
    used         \* exploration: how many moves, resets, renames were made in all

netVars == <<peerState, status, captured, channel, netLast, staleOpen, used>>

NetAtRest ==
    /\ peerState = << >>
    /\ status = << >>
    /\ captured = null
    /\ channel = << >>
    /\ netLast = << >>
    /\ staleOpen = FALSE
    /\ used = 0

VARIABLES
    heap,        \* heap: every object allocated so far
    hCurrent,    \* heap: the reference to the caller's current GameState
    hPrevious,   \* history: the reference passed to the last applyMove
    hOutcome,    \* history: what the last call did: "none", "applied", "threw"
    hMoves       \* exploration: the number of accepted moves

heapVars == <<heap, hCurrent, hPrevious, hOutcome, hMoves>>

HeapAtRest ==
    /\ heap = << >>
    /\ hCurrent = 0
    /\ hPrevious = 0
    /\ hOutcome = "none"
    /\ hMoves = 0

notEngine == <<cwVars, netVars, heapVars>>

notCheckWinner == <<vars, netVars, heapVars>>

notNet == <<vars, cwVars, heapVars>>

notHeap == <<vars, cwVars, netVars>>

Init ==
    /\ gameState = createInitialGameState
    /\ outcome = "none"
    /\ lastMove = NoMove
    /\ ply = 0
    /\ following = 1..Len(Scripts)
    /\ free = 0
    /\ CheckWinnerAtRest
    /\ NetAtRest
    /\ HeapAtRest

EngineAtRest ==
    /\ gameState = createInitialGameState
    /\ outcome = "none"
    /\ lastMove = NoMove
    /\ ply = 0
    /\ following = {}
    /\ free = 0

\* The caller submits a move that the engine accepts: the state is replaced
\* by the one applyMove returns.
ApplyMoveReturns(move) ==
    /\ applyMove(gameState, move) # InvalidMove
    /\ LET on == Continues(following, ply, move.path)
       IN  /\ on # {} \/ free < MaxFree
           /\ following' = on
           /\ free' = IF on # {} THEN free ELSE free + 1
    /\ gameState' = applyMove(gameState, move)
    /\ outcome' = "applied"
    /\ lastMove' = move
    /\ ply' = ply + 1
    /\ UNCHANGED notEngine

\* The caller submits a move on which applyMove throws: the caller catches
\* the error and keeps its state.  Every rejected move leads to the same
\* successor, so the move is drawn inside the guard.
ApplyMoveThrows ==
    /\ ~ \A move \in Moves : applyMove(gameState, move) # InvalidMove
    /\ gameState' = gameState
    /\ outcome' = "threw"
    /\ UNCHANGED <<lastMove, ply, following, free>>
    /\ UNCHANGED notEngine

Next ==
    \/ \E move \in Moves : ApplyMoveReturns(move)
    \/ ApplyMoveThrows

Spec == Init /\ [][Next]_vars

\* ------------------------------------------- checkWinner as a function
\* checkWinner is called with the nine cells of a small board and a getOwner
\* that returns the cell, or with the nine child boards of a medium or root
\* board and a getOwner that returns the child's owner.  Every grid of cell
\* values, and every combination of child owners, is an input.

\* A small board as the engine produces it with the given owner.
childWithOwner(owner) ==
    CASE owner = "X"    -> [level |-> 1, owner |-> "X",
                            grid  |-> [i \in Index |->
                                          IF i \in {0, 1, 2} THEN "X" ELSE null]]
      [] owner = "O"    -> [level |-> 1, owner |-> "O",
                            grid  |-> [i \in Index |->
                                          IF i \in {0, 1, 2} THEN "O" ELSE null]]
      [] owner = "DRAW" -> [level |-> 1, owner |-> "DRAW",
                            grid  |-> [i \in Index |->
                                          IF i \in {0, 2, 3, 7, 8}
                                          THEN "X" ELSE "O"]]
      [] OTHER          -> createSmall

CellGrids == [Index -> CellValue]

OwnerGrids == [Index -> Winner]

cwAll == <<cwVars, notCheckWinner>>

InitCheckWinner ==
    /\ EngineAtRest
    /\ NetAtRest
    /\ HeapAtRest
    /\ cwResult = "pending"
    /\ \/ /\ cwKind = "cells"
          /\ cwGrid \in CellGrids
       \/ /\ cwKind = "boards"
          /\ \E owners \in OwnerGrids :
                cwGrid = [i \in Index |-> childWithOwner(owners[i])]

\* updateSmallBoard's call: the children are cells.
CheckWinnerOfCells ==
    /\ cwKind = "cells"
    /\ cwResult = "pending"
    /\ cwResult' = checkWinner(cwGrid, cellOwner(cwGrid))
    /\ UNCHANGED <<cwGrid, cwKind, notCheckWinner>>

\* updateMediumBoard's and updateLargeBoard's call: the children are boards.
CheckWinnerOfBoards ==
    /\ cwKind = "boards"
    /\ cwResult = "pending"
    /\ cwResult' = checkWinner(cwGrid, boardOwner(cwGrid))
    /\ UNCHANGED <<cwGrid, cwKind, notCheckWinner>>

NextCheckWinner ==
    \/ CheckWinnerOfCells
    \/ CheckWinnerOfBoards

SpecCheckWinner == InitCheckWinner /\ [][NextCheckWinner]_cwAll

\* ------------------------------------------------- a multiplayer session
\* Two instances of the Game component, the host and the guest, each with
\* its own gameState, joined by one data connection that delivers what was
\* sent, in order.  Edit mode is off.

Peers == {"HOST", "GUEST"}

Other(p) == IF p = "HOST" THEN "GUEST" ELSE "HOST"

\* Mutant: both participants take themselves for X.
myPlayer_bothX(p) == "X"

\* const myPlayer = networkRole === 'HOST' ? 'X' : 'O';
myPlayer(p) == IF p = "HOST" THEN "X" ELSE "O"

\* isMultiplayer is true exactly while the status is not OFFLINE.
isMultiplayer(p) == status[p] # "OFFLINE"

\* Mutant: every participant is always on turn.
isMyTurn_always(p) == TRUE

isMyTurn(p) ==
    \/ ~isMultiplayer(p)
    \/ status[p] # "CONNECTED"
    \/ peerState[p].currentPlayer = myPlayer(p)

\* The four fields the engine defines; gameName is the application's.
core(state) ==
    [board           |-> state.board,
     currentPlayer   |-> state.currentPlayer,
     activeBoardPath |-> state.activeBoardPath,
     winner          |-> state.winner]

\* { ...gameState, gameName: newName }
withName(state, newName) ==
    [board           |-> state.board,
     currentPlayer   |-> state.currentPlayer,
     activeBoardPath |-> state.activeBoardPath,
     winner          |-> state.winner,
     gameName        |-> newName]

\* What reading a property of undefined yields instead of a value.
TypeErrorThrown == [error |-> "TypeError"]

InRange(path) == \A k \in 1..3 : path[k] \in Index

\* applyMove on a move taken from the wire, whose path need not lie inside
\* the grids: isValidMove returns false on its early tests, reads
\* large.grid[l3].grid[l2].grid[l1] (a TypeError when l3 or l2 names no
\* board, undefined when only l1 names no cell), and undefined is not null.
applyMoveOnWire(prevState, move) ==
    IF InRange(move.path)
    THEN applyMove(prevState, move)
    ELSE IF Truthy(prevState.winner) THEN InvalidMove
    ELSE IF move.player # prevState.currentPlayer THEN InvalidMove
    ELSE IF /\ prevState.activeBoardPath # nullPath
            /\ \/ move.path[1] # prevState.activeBoardPath[1]
               \/ move.path[2] # prevState.activeBoardPath[2]
         THEN InvalidMove
    ELSE IF move.path[1] \notin Index \/ move.path[2] \notin Index
         THEN TypeErrorThrown
    ELSE InvalidMove

\* try { return newState } catch (e) { return prevState }, newState being
\* what applyMove returned or threw.
returnedOrPrevState(prevState, newState) ==
    IF newState \in {InvalidMove, TypeErrorThrown}
    THEN prevState
    ELSE newState

\* Mutant: an error while applying a remote move starts a new game.
handleRemoteMove_resetsOnError(prevState, move) ==
    returnedOrPrevState(createInitialGameState,
                        applyMoveOnWire(prevState, move))

\* setGameState(prevState => { try { return applyMove(prevState, move) }
\*                             catch (e) { return prevState } })
handleRemoteMove(prevState, move) ==
    returnedOrPrevState(prevState, applyMoveOnWire(prevState, move))

\* Mutant: a snapshot does not change whose turn it is.
onGameState_keepsTurn(prevState, newState) ==
    [newState EXCEPT !.currentPlayer = prevState.currentPlayer]

\* manager.onGameState((newState) => { setGameState(newState) })
onGameState(prevState, newState) == newState

\* Mutant: a concluded game is not reset.
onReset_keepsConcluded(prevState) ==
    IF Truthy(prevState.winner) THEN prevState ELSE createInitialGameState

\* manager.onReset(() => { setGameState(createInitialGameState()) })
onReset(prevState) == createInitialGameState

\* Mutant: a chat message starts a new game.
onChat_resets(prevState, text) == createInitialGameState

\* networkManager.onChat((text) => { setMessages(...) }): the game state
\* is not touched.
onChat(prevState, text) == prevState

NoMsg == [type |-> "NONE", payload |-> null]

ChatMsg(text) == [type |-> "CHAT", payload |-> text]

MoveMsg(move) == [type |-> "MOVE", payload |-> move]

StateMsg(state) == [type |-> "STATE", payload |-> state]

ResetMsg == [type |-> "RESET", payload |-> null]

\* The record kept of the last step: what ran, where, on which message or
\* input, what it did, and the winner field of p's state before it ran.
Did(op, p, msg, result) ==
    [op |-> op, peer |-> p, msg |-> msg, result |-> result,
     winnerBefore |-> peerState[p].winner]

\* conn.send, which the send* methods call when the connection is open.
Send(p, connected, msg) ==
    IF connected
    THEN [channel EXCEPT ![Other(p)] = Append(@, msg)]
    ELSE channel

\* How many local operations (accepted moves, resets, renames, loaded
\* files, chat messages) the two participants make in all.
MaxLocalOps == 2

\* The cells a participant clicks.
NetPaths == {<<0, 0, 0>>, <<0, 0, 1>>}

GameNames == {"Rematch"}

ChatTexts == {"gg"}

\* The state that playing the paths from the n-th on leads to from state,
\* each by the player on turn; a rejected move ends the play.
RECURSIVE playedOn(_, _, _)
playedOn(state, script, n) ==
    IF n > Len(script)
    THEN state
    ELSE LET newState == applyMove(state, [path   |-> script[n],
                                           player |-> state.currentPlayer])
         IN  IF newState = InvalidMove
             THEN state
             ELSE playedOn(newState, script, n + 1)

\* The fields of a GameState that the engine reads.
StateFields == {"board", "currentPlayer", "activeBoardPath", "winner"}

\* JSON.parse(content) as GameState, as the program then reads it: a
\* property the file does not have reads as undefined.
parsed(file) ==
    [f \in StateFields \cup DOMAIN file |->
        IF f \in DOMAIN file THEN file[f] ELSE undefined]

\* A game saved after X had won it.
SavedWonGame == playedOn(createInitialGameState, ScriptWinX, 1)

\* A file with a board and a player but no winner.
FileWithoutWinner ==
    [board           |-> createInitialGameState.board,
     currentPlayer   |-> "O",
     activeBoardPath |-> nullPath]

\* A file with no board.
FileWithoutBoard ==
    [currentPlayer   |-> "X",
     activeBoardPath |-> nullPath,
     winner          |-> null]

\* The files a participant picks in the load dialog.
LoadableFiles == {SavedWonGame, FileWithoutWinner, FileWithoutBoard}

\* The participants that load files, those that write chat messages, and
\* those that rename the game.
Loaders == {"HOST"}

Renamers == {"GUEST"}

Chatters == {"GUEST"}

\* Moves on the wire whose path names no cell of the board.
MalformedMoves ==
    {[path |-> <<9, 0, 0>>, player |-> "X"],
     [path |-> <<0, 0, 9>>, player |-> "O"]}

InitNet ==
    /\ EngineAtRest
    /\ CheckWinnerAtRest
    /\ HeapAtRest
    /\ peerState = [p \in Peers |-> createInitialGameState]
    /\ status = [p \in Peers |-> "OFFLINE"]
    /\ captured = null
    /\ channel = [p \in Peers |-> << >>]
    /\ netLast = Did("init", "HOST", NoMsg, "none")
    /\ staleOpen = FALSE
    /\ used = 0

\* startHost: the callbacks it registers hold the gameState of the render
\* in which it was called.
StartHost ==
    /\ status["HOST"] = "OFFLINE"
    /\ status' = [status EXCEPT !["HOST"] = "CONNECTING"]
    /\ captured' = peerState["HOST"]
    /\ netLast' = Did("startHost", "HOST", NoMsg, "none")
    /\ UNCHANGED <<peerState, channel, staleOpen, used, notNet>>

\* joinGame, with the id the host shows once it is hosting.
JoinGame ==
    /\ status["GUEST"] = "OFFLINE"
    /\ status["HOST"] # "OFFLINE"
    /\ status' = [status EXCEPT !["GUEST"] = "CONNECTING"]
    /\ netLast' = Did("joinGame", "GUEST", NoMsg, "none")
    /\ UNCHANGED <<peerState, captured, channel, staleOpen, used, notNet>>

\* The connection's open event at the host: onConnectionChange(true) sends
\* the gameState its closure holds.
HostOpen ==
    /\ status["HOST"] = "CONNECTING"
    /\ status["GUEST"] # "OFFLINE"
    /\ status' = [status EXCEPT !["HOST"] = "CONNECTED"]
    /\ channel' = Send("HOST", TRUE, StateMsg(captured))
    /\ staleOpen' = (captured # peerState["HOST"])
    /\ netLast' = Did("open", "HOST", NoMsg, "none")
    /\ UNCHANGED <<peerState, captured, used, notNet>>

\* The connection's open event at the guest.
GuestOpen ==
    /\ status["GUEST"] = "CONNECTING"
    /\ status' = [status EXCEPT !["GUEST"] = "CONNECTED"]
    /\ netLast' = Did("open", "GUEST", NoMsg, "none")
    /\ UNCHANGED <<peerState, captured, channel, staleOpen, used, notNet>>

\* Mutant: a rejected move is sent to the peer all the same.
HandleCellClick_sendsRejected(p, path) ==
    LET localState == peerState[p]
        connected  == isMultiplayer(p) /\ status[p] = "CONNECTED"
        move       == [path |-> path, player |-> localState.currentPlayer]
    IN  IF connected /\ ~isMyTurn(p)
        THEN /\ netLast' = Did("click", p, MoveMsg(move), "blocked")
             /\ UNCHANGED <<peerState, channel, used>>
        ELSE IF isValidMove(localState, move)
        THEN /\ used < MaxLocalOps
             /\ peerState' = [peerState EXCEPT
                                 ![p] = applyMove(localState, move)]
             /\ channel' = Send(p, connected, MoveMsg(move))
             /\ used' = used + 1
             /\ netLast' = Did("click", p, MoveMsg(move), "moved")
        ELSE /\ netLast' = Did("click", p, MoveMsg(move), "invalid")
             /\ channel' = Send(p, connected, MoveMsg(move))
             /\ UNCHANGED <<peerState, used>>

\* handleCellClick with edit mode off.
HandleCellClick(p, path) ==
    LET localState == peerState[p]
        connected  == isMultiplayer(p) /\ status[p] = "CONNECTED"
        move       == [path |-> path, player |-> localState.currentPlayer]
    IN  IF connected /\ ~isMyTurn(p)
        THEN /\ netLast' = Did("click", p, MoveMsg(move), "blocked")
             /\ UNCHANGED <<peerState, channel, used>>
        ELSE IF isValidMove(localState, move)
        THEN /\ used < MaxLocalOps
             /\ peerState' = [peerState EXCEPT
                                 ![p] = applyMove(localState, move)]
             /\ channel' = Send(p, connected, MoveMsg(move))
             /\ used' = used + 1
             /\ netLast' = Did("click", p, MoveMsg(move), "moved")
        ELSE /\ netLast' = Did("click", p, MoveMsg(move), "invalid")
             /\ UNCHANGED <<peerState, channel, used>>

CellClick(p, path) ==
    /\ HandleCellClick(p, path)
    /\ UNCHANGED <<status, captured, staleOpen, notNet>>

\* resetGame
ResetGame(p) ==
    /\ used < MaxLocalOps
    /\ peerState' = [peerState EXCEPT ![p] = createInitialGameState]
    /\ channel' = Send(p, isMultiplayer(p) /\ status[p] = "CONNECTED", ResetMsg)
    /\ used' = used + 1
    /\ netLast' = Did("reset", p, NoMsg, "none")
    /\ UNCHANGED <<status, captured, staleOpen, notNet>>

\* handleNameChange followed by syncGameState
HandleNameChange(p, newName) ==
    LET newState == withName(peerState[p], newName)
    IN  /\ used < MaxLocalOps
        /\ peerState' = [peerState EXCEPT ![p] = newState]
        /\ channel' = Send(p, isMultiplayer(p) /\ status[p] = "CONNECTED",
                           StateMsg(newState))
        /\ used' = used + 1
        /\ netLast' = Did("rename", p, NoMsg, "none")
        /\ UNCHANGED <<status, captured, staleOpen, notNet>>

\* reader.onload of handleLoadGame: the file is adopted when it has a
\* board and a currentPlayer, and then sent to the peer by syncGameState;
\* otherwise the error thrown is caught and the state is kept.
HandleLoadGame(p, file) ==
    IF "board" \in DOMAIN file /\ Truthy(parsed(file).currentPlayer)
    THEN /\ used < MaxLocalOps
         /\ peerState' = [peerState EXCEPT ![p] = parsed(file)]
         /\ channel' = Send(p, isMultiplayer(p) /\ status[p] = "CONNECTED",
                            StateMsg(parsed(file)))
         /\ used' = used + 1
         /\ netLast' = Did("load", p, StateMsg(file), "loaded")
    ELSE /\ netLast' = Did("load", p, StateMsg(file), "rejected")
         /\ UNCHANGED <<peerState, channel, used>>

LoadGame(p, file) ==
    /\ HandleLoadGame(p, file)
    /\ UNCHANGED <<status, captured, staleOpen, notNet>>

\* handleSend of the sidebar, whose input form is rendered while the status
\* is CONNECTED: sendChat sends the text over the open connection.
HandleSend(p, text) ==
    /\ used < MaxLocalOps
    /\ status[p] = "CONNECTED"
    /\ channel' = Send(p, TRUE, ChatMsg(text))
    /\ used' = used + 1
    /\ netLast' = Did("chat", p, ChatMsg(text), "none")
    /\ UNCHANGED <<peerState, status, captured, staleOpen, notNet>>

\* The callbacks that handleConnection's data handler dispatches to.
onData(prevState, msg) ==
    CASE msg.type = "MOVE"  -> handleRemoteMove(prevState, msg.payload)
      [] msg.type = "STATE" -> onGameState(prevState, msg.payload)
      [] msg.type = "CHAT"  -> onChat(prevState, msg.payload)
      [] msg.type = "RESET" -> onReset(prevState)
      [] OTHER              -> prevState

\* The data handler has run for msg at p and left newState there.
Received(p, msg, newState) ==
    /\ peerState' = [peerState EXCEPT ![p] = newState]
    /\ netLast' = Did("deliver", p, msg,
                      IF newState = peerState[p] THEN "kept" ELSE "changed")

\* The data event for the oldest message sent to p; the connection emits
\* it once it is open at p.
Deliver(p) ==
    /\ status[p] = "CONNECTED"
    /\ channel[p] # << >>
    /\ Received(p, Head(channel[p]), onData(peerState[p], Head(channel[p])))
    /\ channel' = [channel EXCEPT ![p] = Tail(@)]
    /\ UNCHANGED <<status, captured, staleOpen, used, notNet>>

\* A data event carrying a MOVE whose path is outside the board: the data
\* handler passes data.payload on as it arrived.
DeliverMalformed(p, move) ==
    /\ status[p] = "CONNECTED"
    /\ Received(p, MoveMsg(move), onData(peerState[p], MoveMsg(move)))
    /\ UNCHANGED <<status, captured, channel, staleOpen, used, notNet>>

NextNet ==
    \/ StartHost
    \/ JoinGame
    \/ HostOpen
    \/ GuestOpen
    \/ \E p \in Peers, path \in NetPaths : CellClick(p, path)
    \/ \E p \in Peers : ResetGame(p)
    \/ \E p \in Renamers, newName \in GameNames :
          HandleNameChange(p, newName)
    \/ \E p \in Loaders, file \in LoadableFiles : LoadGame(p, file)
    \/ \E p \in Chatters, text \in ChatTexts : HandleSend(p, text)
    \/ \E p \in Peers : Deliver(p)
    \/ \E p \in Peers, move \in MalformedMoves : DeliverMalformed(p, move)

netAll == <<netVars, notNet>>

SpecNet == InitNet /\ [][NextNet]_netAll

\* ------------------------------------- a session that is synchronized
\* The two instances are connected, hold the same state, a position of a
\* recorded game, and nothing is in flight.

\* How many moves of the recorded game have been played at the start.
MaxSyncPly == 6

\* The cells a participant clicks: those the recorded game goes on with.
SyncPaths == {ScriptFill[n] : n \in 1..(MaxSyncPly + 4)}

SyncedStates ==
    {playedOn(createInitialGameState, SubSeq(ScriptFill, 1, n), 1) :
        n \in 0..MaxSyncPly}

InitSync ==
    /\ EngineAtRest
    /\ CheckWinnerAtRest
    /\ HeapAtRest
    /\ \E state \in SyncedStates :
          /\ peerState = [p \in Peers |-> state]
          /\ captured = state
    /\ status = [p \in Peers |-> "CONNECTED"]
    /\ channel = [p \in Peers |-> << >>]
    /\ netLast = Did("init", "HOST", NoMsg, "none")
    /\ staleOpen = FALSE
    /\ used = 0

\* Edit mode is off, and the participants only click cells.
NextSync ==
    \/ \E p \in Peers, path \in SyncPaths : CellClick(p, path)
    \/ \E p \in Peers : Deliver(p)

SpecSync == InitSync /\ [][NextSync]_netAll

\* --------------------------------------------------------- edit mode
\* The edit branch of handleCellClick: copies are made of the board, its
\* grid, the medium board, its grid, the small board and its grid; the
\* mark is written into the copy of the small grid, the small board into
\* the copy of the medium grid, the copy of the medium board into the
\* copy of the root grid.  The copy of the medium grid is not assigned to
\* medium.grid, so the copy of the medium board still holds the grid it
\* was copied with.
editedBoard(board, path, editPlayer) ==
    LET newGrid    == board.grid
        medium     == newGrid[path[1]]
        mediumGrid == medium.grid
        small      == [mediumGrid[path[2]] EXCEPT
                          !.grid = [@ EXCEPT ![path[3]] = editPlayer]]
        mediumGridWritten == [mediumGrid EXCEPT ![path[2]] = small]
    IN  [board EXCEPT !.grid = [newGrid EXCEPT ![path[1]] = medium]]

\* const newState = { ...gameState, board: newBoard }; setGameState(newState)
EditClick(p, path, editPlayer) ==
    /\ peerState' = [peerState EXCEPT
                        ![p].board = editedBoard(@, path, editPlayer)]
    /\ netLast' = Did("edit", p,
                      MoveMsg([path |-> path, player |-> editPlayer]),
                      "none")
    /\ UNCHANGED <<status, captured, channel, staleOpen, used, notNet>>

\* The participants switch edit mode on and off between clicks.
NextEdit ==
    \/ \E p \in Peers, path \in SyncPaths, editPlayer \in Player :
          EditClick(p, path, editPlayer)
    \/ \E p \in Peers, path \in SyncPaths : CellClick(p, path)
    \/ \E p \in Peers : Deliver(p)

SpecEdit == InitSync /\ [][NextEdit]_netAll

\* ------------------------------------------------ the engine on a heap
\* The engine's objects with their identities: the heap is the sequence of
\* all objects allocated so far, a reference is an index into it.  An array
\* and an object literal allocate; an assignment newGrid[i] = v writes to
\* the object newGrid refers to.

hAlloc(h, obj) == [heap |-> Append(h, obj), ref |-> Len(h) + 1]

hArray(items) == [kind |-> "array", items |-> items]

hBoard(level, owner, grid) ==
    [kind |-> "board", level |-> level, owner |-> owner, grid |-> grid]

\* createInitialGameState: every board is allocated after its children
\* and its grid array.  A medium board with its nine small boards takes
\* twenty consecutive references (nine times array and board, then its own
\* array and board); the large board's array, the large board and the
\* state object follow the nine medium boards.
hCreateInitialGameState ==
    LET perMedium == 2 * 9 + 2
        largeGrid == 9 * perMedium + 1
        large     == largeGrid + 1
        state     == large + 1
        object(a) ==
            LET m == (a - 1) \div perMedium
                r == ((a - 1) % perMedium) + 1
            IN  IF a = state
                THEN [kind            |-> "state",
                      board           |-> large,
                      currentPlayer   |-> "X",
                      activeBoardPath |-> nullPath,
                      winner          |-> null]
                ELSE IF a = large THEN hBoard(3, null, largeGrid)
                ELSE IF a = largeGrid
                THEN hArray([i \in Index |-> perMedium * i + perMedium])
                ELSE IF r = perMedium THEN hBoard(2, null, a - 1)
                ELSE IF r = perMedium - 1
                THEN hArray([i \in Index |-> perMedium * m + 2 * i + 2])
                ELSE IF r % 2 = 1 THEN hArray([i \in Index |-> null])
                ELSE hBoard(1, null, a - 1)
    IN  [heap |-> [a \in 1..state |-> object(a)], ref |-> state]

\* The values the references stand for.
hSmallValue(h, b) ==
    [level |-> h[b].level, owner |-> h[b].owner, grid |-> h[h[b].grid].items]

hMediumValue(h, b) ==
    [level |-> h[b].level,
     owner |-> h[b].owner,
     grid  |-> [i \in Index |-> hSmallValue(h, h[h[b].grid].items[i])]]

hLargeValue(h, b) ==
    [level |-> h[b].level,
     owner |-> h[b].owner,
     grid  |-> [i \in Index |-> hMediumValue(h, h[h[b].grid].items[i])]]

hStateValue(h, s) ==
    [board           |-> hLargeValue(h, h[s].board),
     currentPlayer   |-> h[s].currentPlayer,
     activeBoardPath |-> h[s].activeBoardPath,
     winner          |-> h[s].winner]

\* (b) => b.owner, for the boards an array of references holds.
hBoardOwner(h, items) == [b \in Items(items) |-> h[b].owner]

\* { ...board, grid: newGrid, owner: newOwner }
hUpdatedBoard(written, board, newGrid, newOwner) ==
    hAlloc(written, hBoard(written[board].level, newOwner, newGrid))

\* board.owner ? board.owner : checkWinner(newGrid, (cell) => cell)
hSmallOwner(written, board, newGrid) ==
    IF Truthy(written[board].owner)
    THEN written[board].owner
    ELSE checkWinner(written[newGrid].items, cellOwner(written[newGrid].items))

\* updateSmallBoard from its second statement on, newGrid being the
\* reference grid.ref in the heap grid.heap.
hSmallWithGrid(grid, board, index, player) ==
    IF grid.heap[grid.ref].items[index] # null
    THEN [heap |-> grid.heap, ref |-> board]
    ELSE hUpdatedBoard(
             [grid.heap EXCEPT ![grid.ref].items[index] = player],
             board,
             grid.ref,
             hSmallOwner([grid.heap EXCEPT ![grid.ref].items[index] = player],
                         board, grid.ref))

\* Mutant: newGrid is the board's own array, not a copy of it.
hUpdateSmallBoard_aliasGrid(h, board, index, player) ==
    hSmallWithGrid([heap |-> h, ref |-> h[board].grid], board, index, player)

\* const newGrid = [...board.grid]; and the rest of updateSmallBoard.
hUpdateSmallBoard(h, board, index, player) ==
    hSmallWithGrid(hAlloc(h, h[h[board].grid]), board, index, player)

\* board.owner ? board.owner : checkWinner(newGrid, (b) => b.owner)
hParentOwner(written, board, newGrid) ==
    IF Truthy(written[board].owner)
    THEN written[board].owner
    ELSE checkWinner(written[newGrid].items,
                     hBoardOwner(written, written[newGrid].items))

\* newGrid[idx] = newSubBoard; and the rest of updateMediumBoard and of
\* updateLargeBoard.
hParentWithChild(newSubBoard, board, newGrid, idx) ==
    hUpdatedBoard(
        [newSubBoard.heap EXCEPT ![newGrid].items[idx] = newSubBoard.ref],
        board,
        newGrid,
        hParentOwner(
            [newSubBoard.heap EXCEPT ![newGrid].items[idx] = newSubBoard.ref],
            board, newGrid))

\* updateMediumBoard from its second statement on.
hMediumWithGrid(grid, board, l2_idx, l1_idx, player) ==
    hParentWithChild(
        hUpdateSmallBoard(grid.heap, grid.heap[grid.ref].items[l2_idx],
                          l1_idx, player),
        board, grid.ref, l2_idx)

hUpdateMediumBoard(h, board, l2_idx, l1_idx, player) ==
    hMediumWithGrid(hAlloc(h, h[h[board].grid]), board, l2_idx, l1_idx, player)

\* updateLargeBoard from its second statement on.
hLargeWithGrid(grid, board, l3_idx, l2_idx, l1_idx, player) ==
    hParentWithChild(
        hUpdateMediumBoard(grid.heap, grid.heap[grid.ref].items[l3_idx],
                           l2_idx, l1_idx, player),
        board, grid.ref, l3_idx)

hUpdateLargeBoard(h, board, l3_idx, l2_idx, l1_idx, player) ==
    hLargeWithGrid(hAlloc(h, h[h[board].grid]), board,
                   l3_idx, l2_idx, l1_idx, player)

\* isValidMove only reads: it sees the values.
hIsValidMove(h, s, move) == isValidMove(hStateValue(h, s), move)

\* newBoard.grid[l2].grid[l1].grid.every(c => c !== null)
hIsTargetFull(h, newBoard, l2, l1) ==
    \A c \in Index :
        h[h[h[h[h[h[newBoard].grid].items[l2]].grid].items[l1]].grid].items[c]
            # null

\* applyMove's return statement, newBoard being the reference
\* newBoard.ref in the heap newBoard.heap.
hReturnState(newBoard, s, l2, l1) ==
    hAlloc(newBoard.heap,
           [kind            |-> "state",
            board           |-> newBoard.ref,
            currentPlayer   |-> IF newBoard.heap[s].currentPlayer = "X"
                                THEN "O" ELSE "X",
            activeBoardPath |-> IF hIsTargetFull(newBoard.heap, newBoard.ref,
                                                 l2, l1)
                                THEN nullPath ELSE <<l2, l1>>,
            winner          |-> newBoard.heap[newBoard.ref].owner])

\* applyMove for a move isValidMove accepts.
hApplyMove(h, s, move) ==
    hReturnState(
        hUpdateLargeBoard(h, h[s].board, move.path[1], move.path[2],
                          move.path[3], h[s].currentPlayer),
        s, move.path[2], move.path[3])

MaxHeapMoves == 2

\* The moves the caller submits.
HeapMoves == [path : (0..2) \X (0..2) \X (0..2), player : Player]

InitHeap ==
    /\ EngineAtRest
    /\ CheckWinnerAtRest
    /\ NetAtRest
    /\ LET first == hCreateInitialGameState
       IN  /\ heap = first.heap
           /\ hCurrent = first.ref
           /\ hPrevious = first.ref
    /\ hOutcome = "none"
    /\ hMoves = 0

\* The caller keeps the reference applyMove returned.
Returned(result) ==
    /\ heap' = result.heap
    /\ hCurrent' = result.ref

\* The caller submits a move the engine accepts and keeps the state
\* applyMove returns.
HeapApplyMoveReturns(move) ==
    /\ hMoves < MaxHeapMoves
    /\ hIsValidMove(heap, hCurrent, move)
    /\ Returned(hApplyMove(heap, hCurrent, move))
    /\ hPrevious' = hCurrent
    /\ hOutcome' = "applied"
    /\ hMoves' = hMoves + 1
    /\ UNCHANGED notHeap

\* The caller submits a move on which applyMove throws.
HeapApplyMoveThrows(move) ==
    /\ ~hIsValidMove(heap, hCurrent, move)
    /\ hOutcome' = "threw"
    /\ UNCHANGED <<heap, hCurrent, hPrevious, hMoves, notHeap>>

NextHeap ==
    \/ \E move \in HeapMoves : HeapApplyMoveReturns(move)
    \/ \E move \in HeapMoves : HeapApplyMoveThrows(move)

heapAll == <<heapVars, notHeap>>

SpecHeap == InitHeap /\ [][NextHeap]_heapAll


\* ------------------------------------------------------- reading a state

Paths == Index \X Index \X Index

mediumAt(state, l3) == state.board.grid[l3]

smallAt(state, l3, l2) == state.board.grid[l3].grid[l2]

cellAt(state, path) == state.board.grid[path[1]].grid[path[2]].grid[path[3]]

HasEmptyCell(small) == \E c \in Index : small.grid[c] = null

AllCellsFilled(small) == \A c \in Index : small.grid[c] # null

Opposite(player) == IF player = "X" THEN "O" ELSE "X"

\* Player p holds all three cells of some pattern of a small board.
HoldsLine(small, p) ==
    \E k \in 1..Len(WIN_PATTERNS) :
        \A j \in 1..3 : small.grid[WIN_PATTERNS[k][j]] = p

\* The four conditions of validity, read off the state and the move.
InProgress(state) == state.winner = null

OnTurn(state, move) == move.player = state.currentPlayer

InsideConstraint(state, move) ==
    \/ state.activeBoardPath = nullPath
    \/ state.activeBoardPath = <<move.path[1], move.path[2]>>

\* ------------------------------------------------------------------ C1
\* C1 (terminal absorption): in a state whose winner is X, O or DRAW,
\* isValidMove is false for every path in [0,8]^3 and either player, and no
\* step of the engine changes a concluded state.
C1_TerminalAbsorption ==
    /\ [](gameState.winner # null
            => \A move \in Moves : ~isValidMove(gameState, move))
    /\ [][gameState.winner # null => gameState' = gameState]_vars

\* A drawn game on which a further move has been submitted and rejected.
C1_Witness ==
    /\ gameState.winner = "DRAW"
    /\ outcome = "threw"

\* ------------------------------------------------------------------ C2
\* C2 (constraint correctness): for every valid move at (l3, l2, l1),
\* applyMove returns activeBoardPath = [l2, l1], whatever l3 and the owners
\* are, unless the small board at root index l2, sub-index l1 of the
\* post-move board has all nine cells non-empty; then it returns null.
C2_ConstraintCorrectness ==
    \A move \in Moves :
        isValidMove(gameState, move) =>
            LET after  == applyMove(gameState, move)
                target == smallAt(after, move.path[2], move.path[3])
            IN  after.activeBoardPath =
                    IF AllCellsFilled(target)
                    THEN nullPath
                    ELSE <<move.path[2], move.path[3]>>

\* A move was applied whose target board is full, which gave free play, with
\* l3 different from l2 and medium board l2 still undecided.
C2_Witness ==
    /\ outcome = "applied"
    /\ lastMove.path[1] # lastMove.path[2]
    /\ AllCellsFilled(smallAt(gameState, lastMove.path[2], lastMove.path[3]))
    /\ gameState.activeBoardPath = nullPath

\* ------------------------------------------------------------------ C3
\* C3: whenever activeBoardPath is non-null, the small board it names,
\* board.grid[p0].grid[p1], has at least one empty cell; also right after a
\* move (k,k,k) that fills the last cell of the board it points back to.
C3_ConstraintNamesOpenBoard ==
    gameState.activeBoardPath # nullPath =>
        HasEmptyCell(smallAt(gameState, gameState.activeBoardPath[1],
                                        gameState.activeBoardPath[2]))

\* The move (k,k,k) has just filled the last cell of small board (k,k).
C3_Witness ==
    /\ outcome = "applied"
    /\ lastMove.path[1] = lastMove.path[2]
    /\ lastMove.path[2] = lastMove.path[3]
    /\ AllCellsFilled(smallAt(gameState, lastMove.path[1], lastMove.path[2]))

C7_OwnersFrozen ==
    [][ /\ gameState.board.owner # null
            => gameState'.board.owner = gameState.board.owner
        /\ \A l3 \in Index :
            /\ mediumAt(gameState, l3).owner # null
                => mediumAt(gameState', l3).owner = mediumAt(gameState, l3).owner
            /\ \A l2 \in Index :
                smallAt(gameState, l3, l2).owner # null
                    => smallAt(gameState', l3, l2).owner
                          = smallAt(gameState, l3, l2).owner
      ]_vars

\* A small board owned by X in which O has since completed a line.
C7_Witness ==
    \E l3 \in Index, l2 \in Index :
        /\ smallAt(gameState, l3, l2).owner = "X"
        /\ HoldsLine(smallAt(gameState, l3, l2), "O")

\* ------------------------------------------------------------------ C8
\* C8 (no overwrite of decided cells): once a cell holds X or O, every step
\* leaves it at that value.
C8_CellsFrozen ==
    [][ \A path \in Paths :
            cellAt(gameState, path) # null
                => cellAt(gameState', path) = cellAt(gameState, path) ]_vars

\* After nine or more accepted moves every mark ever placed is still on the
\* board: the occupied cells are as many as the accepted moves.
C8_Witness ==
    /\ outcome = "applied"
    /\ ply >= 9
    /\ Cardinality({path \in Paths : cellAt(gameState, path) # null}) = ply

\* ------------------------------------------------------------------ C9
\* C9 (turn alternation): for every valid move, the state applyMove returns
\* has the opposite player as currentPlayer.
C9_TurnAlternation ==
    \A move \in Moves :
        isValidMove(gameState, move) =>
            applyMove(gameState, move).currentPlayer
                = Opposite(gameState.currentPlayer)

\* O's move was applied and the turn is back with X.
C9_Witness ==
    /\ outcome = "applied"
    /\ lastMove.player = "O"
    /\ gameState.currentPlayer = "X"
    /\ ply >= 2

\* ----------------------------------------------------------------- C10
\* C10: on a move for which isValidMove is false, applyMove fails with the
\* error and returns no state, and the caller's state is as it was before.
C10_InvalidMoveRejected ==
    /\ [](\A move \in Moves :
            ~isValidMove(gameState, move)
                => applyMove(gameState, move) = InvalidMove)
    /\ [][outcome' = "threw" => gameState' = gameState]_vars

\* A move has been rejected in a game in progress that is pinned to a board.
C10_Witness ==
    /\ outcome = "threw"
    /\ gameState.winner = null
    /\ gameState.activeBoardPath # nullPath
    /\ ply >= 1


\* ----------------------------------------------------------------- C11
\* The eight lines of a 3x3 grid: three rows, three columns, two diagonals.
Lines ==
    {{3 * r, 3 * r + 1, 3 * r + 2} : r \in 0..2}
        \cup {{c, c + 3, c + 6} : c \in 0..2}
        \cup {{0, 4, 8}, {2, 4, 6}}

\* The cells of a small board that hold player p's mark.
MarksOf(small, p) == {c \in Index : small.grid[c] = p}

\* C11 (win pattern correctness): when an accepted move gives the mover all
\* three positions of one of the eight lines in a small board whose owner
\* was none, that small board's owner is the mover in the returned state.
C11_WinPatternCorrectness ==
    [][ outcome' = "applied" /\ gameState' # gameState =>
          LET l3     == lastMove'.path[1]
              l2     == lastMove'.path[2]
              before == smallAt(gameState, l3, l2)
              after  == smallAt(gameState', l3, l2)
          IN  /\ before.owner = null
              /\ \E line \in Lines :
                    /\ lastMove'.path[3] \in line
                    /\ line \subseteq MarksOf(after, lastMove'.player)
              => after.owner = lastMove'.player ]_vars

\* For each of the eight lines there is a small board whose owner holds
\* exactly the three cells of that line.
C11_Witness ==
    \A line \in Lines :
        \E l3 \in Index, l2 \in Index :
            /\ smallAt(gameState, l3, l2).owner \in Player
            /\ MarksOf(smallAt(gameState, l3, l2),
                       smallAt(gameState, l3, l2).owner) = line

\* ----------------------------------------------------------------- C12
\* Player p owns all three children of some line of a board.
OwnsLineOfChildren(board, p) ==
    \E line \in Lines : \A i \in line : board.grid[i].owner = p

\* C12: a medium board, and likewise the root board, has owner X or O only
\* if three of its children on one line all have that owner; until then a
\* won small board leaves its medium board without a winner.
C12_OwnerNeedsLineOfChildren ==
    /\ gameState.board.owner \in Player
          => OwnsLineOfChildren(gameState.board, gameState.board.owner)
    /\ \A l3 \in Index :
          mediumAt(gameState, l3).owner \in Player
              => OwnsLineOfChildren(mediumAt(gameState, l3),
                                    mediumAt(gameState, l3).owner)

\* One medium board is won, and another one holds a won small board and is
\* still undecided.
C12_Witness ==
    \E a \in Index, b \in Index :
        /\ mediumAt(gameState, a).owner \in Player
        /\ mediumAt(gameState, b).owner = null
        /\ \E l2 \in Index : smallAt(gameState, b, l2).owner \in Player

\* ----------------------------------------------------------------- C13
\* What decides child i of the grid handed to checkWinner: the mark in a
\* cell, the owner of a child board.
cwDecision(i) == IF cwKind = "cells" THEN cwGrid[i] ELSE cwGrid[i].owner

\* Some line has three children decided for the same player X or O.
cwSomeLineWon ==
    \E line \in Lines, p \in Player : \A i \in line : cwDecision(i) = p

\* Every child is decided: a non-empty cell, or a child owned X, O or DRAW.
cwAllDecided == \A i \in Index : cwDecision(i) \in {"X", "O", "DRAW"}

\* C13: checkWinner returns DRAW exactly when no line has three children of
\* the same X/O owner and all nine children are decided; it returns none
\* when no line is complete and some child is undecided; children owned
\* DRAW never complete a line.
C13_DrawExactlyWhenFullWithoutLine ==
    cwResult # "pending" =>
        /\ cwResult = "DRAW" <=> (~cwSomeLineWon /\ cwAllDecided)
        /\ (~cwSomeLineWon /\ ~cwAllDecided) => cwResult = null
        /\ cwResult \in Player => cwSomeLineWon

\* checkWinner has answered none for a grid of child boards in which a whole
\* line is owned DRAW and some child is undecided.
C13_Witness ==
    /\ cwKind = "boards"
    /\ cwResult = null
    /\ \E line \in Lines : \A i \in line : cwGrid[i].owner = "DRAW"
    /\ \E i \in Index : cwGrid[i].owner = null

\* ----------------------------------------------------------------- C14
\* C14: in every state, winner equals the owner of the root board (so it is
\* none until the root board is decided).
C14_WinnerMirrorsRoot ==
    gameState.winner = gameState.board.owner

\* The move that decided the root board for X has just been applied.
C14_Witness ==
    /\ outcome = "applied"
    /\ gameState.board.owner = "X"
    /\ gameState.winner = "X"

\* ----------------------------------------------------------------- C15
\* A board of the given level with owner none and exactly nine children.
EmptyNode(board, level) ==
    /\ board.level = level
    /\ board.owner = null
    /\ DOMAIN board.grid = 0..8

\* C15: the state a game starts in has currentPlayer X, no constraint, no
\* winner, every leaf cell empty, and every board of the three levels with
\* owner none and exactly nine children.
C15_FreshGame ==
    ply = 0 =>
        /\ gameState.currentPlayer = "X"
        /\ gameState.activeBoardPath = nullPath
        /\ gameState.winner = null
        /\ EmptyNode(gameState.board, 3)
        /\ \A l3 \in Index :
              /\ EmptyNode(mediumAt(gameState, l3), 2)
              /\ \A l2 \in Index :
                    /\ EmptyNode(smallAt(gameState, l3, l2), 1)
                    /\ \A l1 \in Index :
                          cellAt(gameState, <<l3, l2, l1>>) = null

\* The state right after construction, before any call of the engine.
C15_Witness ==
    /\ ply = 0
    /\ outcome = "none"


\* ----------------------------------------------------------------- C16
\* The objects that make up a state: the state object, its board tree, and
\* every board and array below it.
hTreeOf(h, s) ==
    LET large   == h[s].board
        mediums == {h[h[large].grid].items[i] : i \in Index}
        smalls  == UNION {{h[h[m].grid].items[i] : i \in Index} : m \in mediums}
        boards  == {large} \cup mediums \cup smalls
    IN  {s} \cup boards \cup {h[b].grid : b \in boards}

\* C16 (immutability): for a state S and a valid move M, applyMove(S, M)
\* leaves S, its board tree and every subtree of it unchanged: no object of
\* S is written, the result is a separate object, and S after the call
\* equals S before the call.
C16_ApplyMoveLeavesArgumentUnchanged ==
    [][ hOutcome' = "applied" =>
          /\ \A a \in hTreeOf(heap, hCurrent) : heap'[a] = heap[a]
          /\ hCurrent' \notin hTreeOf(heap, hCurrent)
          /\ hCurrent' \notin 1..Len(heap)
          /\ hStateValue(heap', hCurrent) = hStateValue(heap, hCurrent)
        ]_heapAll

\* applyMove has returned a state for a valid move on a state that already
\* had a move on its board; the argument and the result are different
\* objects with different values.
C16_Witness ==
    /\ hOutcome = "applied"
    /\ hMoves = 2
    /\ hPrevious # hCurrent
    /\ hStateValue(heap, hPrevious) # hStateValue(heap, hCurrent)
    /\ hStateValue(heap, hPrevious) # createInitialGameState

\* The heap engine computes the states the engine's definitions give: the
\* value of the returned object is applyMove of the value of the argument.
HeapAgreesWithEngine ==
    [][ hOutcome' = "applied" =>
          \E move \in HeapMoves :
              hStateValue(heap', hCurrent')
                  = applyMove(hStateValue(heap, hCurrent), move)
        ]_heapAll

\* ----------------------------------------------------------------- C17
BothConnected == \A p \in Peers : status[p] = "CONNECTED"

NothingInFlight == \A p \in Peers : channel[p] = << >>

\* C17: host and guest, connected by a channel that delivers in order what
\* was sent, hold the same game state (board, currentPlayer,
\* activeBoardPath, winner) whenever no message is in flight; stated here
\* for the sessions whose connect snapshot was the host's current state.
C17_PeersConsistent ==
    (BothConnected /\ NothingInFlight /\ ~staleOpen)
        => core(peerState["HOST"]) = core(peerState["GUEST"])

\* ----------------------------------------------------------------- C18
\* C18: when the connection opens, the STATE message the host sends carries
\* the host's game state as it is at that moment.
C18_ConnectSnapshotIsCurrent ==
    (netLast.op = "open" /\ netLast.peer = "HOST")
        => /\ channel["GUEST"] # << >>
           /\ channel["GUEST"][Len(channel["GUEST"])]
                 = [type |-> "STATE", payload |-> peerState["HOST"]]

\* ----------------------------------------------------------------- C19
\* The mark a participant plays in a session: the host X, the guest O.
MarkOf(p) == IF p = "GUEST" THEN "O" ELSE "X"

\* C19: in a connected session with edit mode off, a click changes the
\* local state and sends a MOVE only if the local currentPlayer is the
\* participant's mark; otherwise the state is unchanged and nothing is
\* sent.  A click that does submit sends the move with that mark.
C19_TurnDiscipline ==
    [][ netLast'.op = "click" /\ status[netLast'.peer] = "CONNECTED" =>
          LET p == netLast'.peer
          IN  IF peerState[p].currentPlayer # MarkOf(p)
              THEN /\ peerState' = peerState
                   /\ channel' = channel
              ELSE \/ /\ peerState' = peerState
                      /\ channel' = channel
                   \/ /\ peerState'[p] # peerState[p]
                      /\ Len(channel'[Other(p)]) = Len(channel[Other(p)]) + 1
                      /\ LET sent == channel'[Other(p)][Len(channel'[Other(p)])]
                         IN  /\ sent.type = "MOVE"
                             /\ sent.payload.player = MarkOf(p)
        ]_netAll

\* The connected guest has clicked a cell while X is to move and was turned
\* away.
C19_Witness ==
    /\ netLast.op = "click"
    /\ netLast.peer = "GUEST"
    /\ netLast.result = "blocked"
    /\ status["GUEST"] = "CONNECTED"
    /\ peerState["GUEST"].currentPlayer = "X"

\* ----------------------------------------------------------------- C20
\* C20: a received MOVE is run through applyMove on the receiver's current
\* state: the state becomes applyMove(state, move) if the move is valid
\* there, and is left as it was if the move is invalid or its path is out
\* of range.
C20_RemoteMoveThroughApplyMove ==
    [][ netLast'.op = "deliver" /\ netLast'.msg.type = "MOVE" =>
          LET p     == netLast'.peer
              move  == netLast'.msg.payload
              state == peerState[p]
          IN  peerState'[p] =
                  IF /\ move.path \in Index \X Index \X Index
                     /\ isValidMove(state, move)
                  THEN applyMove(state, move)
                  ELSE state
        ]_netAll

\* A participant that has a move on its board has received a MOVE whose
\* path is out of range and has kept its state.
C20_Witness ==
    /\ netLast.op = "deliver"
    /\ netLast.msg.type = "MOVE"
    /\ netLast.msg.payload.path \notin Index \X Index \X Index
    /\ netLast.result = "kept"
    /\ peerState[netLast.peer] # createInitialGameState


\* ----------------------------------------------------------------- C21
\* A state with the four fields of a GameState, each of its type, and a
\* board of three levels with nine children at each.
WellFormedState(state) ==
    /\ StateFields \subseteq DOMAIN state
    /\ state.currentPlayer \in Player
    /\ state.winner \in Winner \cup {null}
    /\ state.activeBoardPath \in {nullPath} \cup (Index \X Index)
    /\ DOMAIN state.board.grid = Index
    /\ \A l3 \in Index :
          /\ DOMAIN state.board.grid[l3].grid = Index
          /\ \A l2 \in Index :
                DOMAIN state.board.grid[l3].grid[l2].grid = Index

\* C21: a malformed state received from outside, as a STATE message from
\* the peer or as a loaded file, is never adopted: the step that receives
\* it leaves the local state unchanged.
C21_MalformedStateNeverAdopted ==
    [][ /\ \/ netLast'.op = "load"
           \/ netLast'.op = "deliver" /\ netLast'.msg.type = "STATE"
        /\ ~WellFormedState(netLast'.msg.payload)
        => peerState'[netLast'.peer] = peerState[netLast'.peer]
      ]_netAll

\* ----------------------------------------------------------------- C22
\* C22: a received STATE message replaces the receiver's whole local game
\* state: after it is processed, the receiver's board, currentPlayer,
\* activeBoardPath and winner are the payload's, whatever they were before.
C22_StateReplacesWholeState ==
    [][ netLast'.op = "deliver" /\ netLast'.msg.type = "STATE" =>
          LET after   == peerState'[netLast'.peer]
              payload == netLast'.msg.payload
          IN  /\ after.board = payload.board
              /\ after.currentPlayer = payload.currentPlayer
              /\ after.activeBoardPath = payload.activeBoardPath
              /\ after.winner = payload.winner
      ]_netAll

\* A STATE message with O to move has been processed by a receiver whose
\* state it changed, the winner field included.
C22_Witness ==
    /\ netLast.op = "deliver"
    /\ netLast.msg.type = "STATE"
    /\ netLast.result = "changed"
    /\ netLast.msg.payload.currentPlayer = "O"
    /\ peerState[netLast.peer].currentPlayer = "O"
    /\ peerState[netLast.peer].winner # netLast.winnerBefore

\* ----------------------------------------------------------------- C23
\* The fresh-game state: empty board, X to move, no constraint, no winner.
IsFreshGame(state) ==
    /\ state.currentPlayer = "X"
    /\ state.activeBoardPath = nullPath
    /\ state.winner = null
    /\ EmptyNode(state.board, 3)
    /\ \A l3 \in Index :
          /\ EmptyNode(state.board.grid[l3], 2)
          /\ \A l2 \in Index :
                /\ EmptyNode(state.board.grid[l3].grid[l2], 1)
                /\ \A l1 \in Index :
                      state.board.grid[l3].grid[l2].grid[l1] = null

\* C23: a received RESET message reinitializes the receiver to the
\* fresh-game state from any prior state, a concluded game included; a
\* local reset does the same locally and sends RESET when connected (and
\* nothing otherwise).
C23_ResetReinitializes ==
    [][ /\ netLast'.op = "deliver" /\ netLast'.msg.type = "RESET"
             => IsFreshGame(peerState'[netLast'.peer])
        /\ netLast'.op = "reset" =>
             LET p == netLast'.peer
             IN  /\ IsFreshGame(peerState'[p])
                 /\ channel'[p] = channel[p]
                 /\ channel'[Other(p)] =
                       IF status[p] = "CONNECTED"
                       THEN Append(channel[Other(p)], ResetMsg)
                       ELSE channel[Other(p)]
      ]_netAll

\* A RESET message has been processed by a receiver whose game had been
\* won by X.
C23_Witness ==
    /\ netLast.op = "deliver"
    /\ netLast.msg.type = "RESET"
    /\ netLast.winnerBefore = "X"
    /\ netLast.result = "changed"
    /\ IsFreshGame(peerState[netLast.peer])

\* ----------------------------------------------------------------- C24
\* C24: sending or receiving a CHAT message leaves the game state (board,
\* currentPlayer, activeBoardPath, winner) unchanged on both peers.
C24_ChatLeavesGameState ==
    [][ \/ netLast'.op = "chat"
        \/ netLast'.op = "deliver" /\ netLast'.msg.type = "CHAT"
        => \A q \in Peers :
              /\ peerState'[q].board = peerState[q].board
              /\ peerState'[q].currentPlayer = peerState[q].currentPlayer
              /\ peerState'[q].activeBoardPath = peerState[q].activeBoardPath
              /\ peerState'[q].winner = peerState[q].winner
      ]_netAll

\* A CHAT message has been received by a participant whose game is not a
\* fresh one.
C24_Witness ==
    /\ netLast.op = "deliver"
    /\ netLast.msg.type = "CHAT"
    /\ ~IsFreshGame(peerState[netLast.peer])
    /\ netLast.result = "kept"

\* ----------------------------------------------------------------- C25
\* C25: a local click (edit mode off) whose move fails isValidMove is
\* rejected without any effect on the game: the local game state is
\* unchanged and no MOVE message is sent to the peer.
C25_RejectedClickHasNoEffect ==
    [][ /\ netLast'.op = "click"
        /\ ~isValidMove(peerState[netLast'.peer], netLast'.msg.payload)
        => /\ peerState' = peerState
           /\ channel' = channel
      ]_netAll

\* A connected participant, on turn in a game in progress, has clicked an
\* occupied cell.
C25_Witness ==
    /\ netLast.op = "click"
    /\ netLast.result = "invalid"
    /\ status[netLast.peer] = "CONNECTED"
    /\ peerState[netLast.peer].winner = null
    /\ peerState[netLast.peer].currentPlayer = myPlayer(netLast.peer)

\* ----------------------------------------------------------------- C26
\* C26 (frame of applyMove): for a valid move at (l3, l2, l1) by player P
\* the returned board differs from the input board in exactly one cell,
\* (l3, l2, l1), which becomes P; every other cell is unchanged, and so is
\* the owner of every small and medium board that is not on the path.
C26_ApplyMoveFrame ==
    [][ outcome' = "applied" /\ gameState' # gameState =>
          LET path == lastMove'.path
          IN  /\ cellAt(gameState, path) = null
              /\ cellAt(gameState', path) = lastMove'.player
              /\ \A q \in Paths \ {path} :
                    cellAt(gameState', q) = cellAt(gameState, q)
              /\ \A l3 \in Index \ {path[1]} :
                    mediumAt(gameState', l3).owner
                        = mediumAt(gameState, l3).owner
              /\ \A l3 \in Index, l2 \in Index :
                    <<l3, l2>> # <<path[1], path[2]>>
                        => smallAt(gameState', l3, l2).owner
                               = smallAt(gameState, l3, l2).owner
        ]_vars

\* A move has been applied while a medium board and a small board off its
\* path were already owned.
C26_Witness ==
    /\ outcome = "applied"
    /\ \E l3 \in Index \ {lastMove.path[1]} :
          mediumAt(gameState, l3).owner \in Player
    /\ \E l2 \in Index \ {lastMove.path[2]} :
          smallAt(gameState, lastMove.path[1], l2).owner \in Player

\* ----------------------------------------------------------------- C27
\* The children of a board that player p owns.
OwnedBy(board, p) == {i \in Index : board.grid[i].owner = p}

\* Some line lies inside the set of positions.
HasLineIn(positions) == \E line \in Lines : line \subseteq positions

\* C27 (cascade in one step): a valid move that completes a line in an
\* undecided small board, whose medium board is undecided and thereby gets
\* a line of small boards of the mover, whose root is undecided and thereby
\* gets a line of medium boards of the mover, returns a state in which the
\* small board, the medium board, the root and winner are all the mover.
C27_CascadeInOneStep ==
    [][ outcome' = "applied" /\ gameState' # gameState =>
          LET l3 == lastMove'.path[1]
              l2 == lastMove'.path[2]
              l1 == lastMove'.path[3]
              p  == lastMove'.player
          IN  ( /\ smallAt(gameState, l3, l2).owner = null
                /\ mediumAt(gameState, l3).owner = null
                /\ gameState.board.owner = null
                /\ HasLineIn(MarksOf(smallAt(gameState, l3, l2), p) \cup {l1})
                /\ HasLineIn(OwnedBy(mediumAt(gameState, l3), p) \cup {l2})
                /\ HasLineIn(OwnedBy(gameState.board, p) \cup {l3}) )
              => /\ smallAt(gameState', l3, l2).owner = p
                 /\ mediumAt(gameState', l3).owner = p
                 /\ gameState'.board.owner = p
                 /\ gameState'.winner = p
        ]_vars

\* The last move has decided its small board, its medium board and the
\* root at once: at each level the mover has a line, and none without the
\* position the move was made in.
C27_Witness ==
    LET l3 == lastMove.path[1]
        l2 == lastMove.path[2]
        l1 == lastMove.path[3]
        p  == lastMove.player
    IN  /\ outcome = "applied"
        /\ gameState.winner = p
        /\ smallAt(gameState, l3, l2).owner = p
        /\ mediumAt(gameState, l3).owner = p
        /\ gameState.board.owner = p
        /\ HasLineIn(MarksOf(smallAt(gameState, l3, l2), p))
        /\ ~HasLineIn(MarksOf(smallAt(gameState, l3, l2), p) \ {l1})
        /\ HasLineIn(OwnedBy(mediumAt(gameState, l3), p))
        /\ ~HasLineIn(OwnedBy(mediumAt(gameState, l3), p) \ {l2})
        /\ HasLineIn(OwnedBy(gameState.board, p))
        /\ ~HasLineIn(OwnedBy(gameState.board, p) \ {l3})

\* ----------------------------------------------------------------- C28
\* The players that have a complete line among the given positions.
LineHolders(positionsOf) == {p \in Player : HasLineIn(positionsOf[p])}

\* C28: whenever applyMove evaluates an undecided board (the small board,
\* the medium board or the root on the path of the move), at most one
\* player has a complete line in its grid after the move, and the owner it
\* gets is that player, so the order of the eight patterns does not matter.
C28_OnePlayerCompleteWhenEvaluated ==
    [][ outcome' = "applied" /\ gameState' # gameState =>
          LET l3 == lastMove'.path[1]
              l2 == lastMove'.path[2]
              inSmall  == [p \in Player |->
                             MarksOf(smallAt(gameState', l3, l2), p)]
              inMedium == [p \in Player |->
                             OwnedBy(mediumAt(gameState', l3), p)]
              inRoot   == [p \in Player |-> OwnedBy(gameState'.board, p)]
          IN  /\ smallAt(gameState, l3, l2).owner = null =>
                    /\ Cardinality(LineHolders(inSmall)) <= 1
                    /\ \A p \in LineHolders(inSmall) :
                          smallAt(gameState', l3, l2).owner = p
              /\ mediumAt(gameState, l3).owner = null =>
                    /\ Cardinality(LineHolders(inMedium)) <= 1
                    /\ \A p \in LineHolders(inMedium) :
                          mediumAt(gameState', l3).owner = p
              /\ gameState.board.owner = null =>
                    /\ Cardinality(LineHolders(inRoot)) <= 1
                    /\ \A p \in LineHolders(inRoot) :
                          gameState'.board.owner = p
        ]_vars

\* The last move has decided its small board by a line it completed, in a
\* board where the other player has two marks on a line whose third cell
\* is empty.
C28_Witness ==
    LET small == smallAt(gameState, lastMove.path[1], lastMove.path[2])
        p     == lastMove.player
    IN  /\ outcome = "applied"
        /\ small.owner = p
        /\ HasLineIn(MarksOf(small, p))
        /\ ~HasLineIn(MarksOf(small, p) \ {lastMove.path[3]})
        /\ \E line \in Lines, c \in Index :
              /\ c \in line
              /\ small.grid[c] = null
              /\ line \ {c} \subseteq MarksOf(small, Opposite(p))

\* ----------------------------------------------------------------- C29
\* C29 (no dead end): in every state with winner none there is a move by
\* currentPlayer that isValidMove accepts: with a constraint set, the
\* constrained small board has an empty cell; under free play, some small
\* board has one.
C29_NoDeadEnd ==
    gameState.winner = null =>
        /\ \E path \in Paths :
              isValidMove(gameState, [path   |-> path,
                                      player |-> gameState.currentPlayer])
        /\ IF gameState.activeBoardPath # nullPath
           THEN HasEmptyCell(smallAt(gameState, gameState.activeBoardPath[1],
                                     gameState.activeBoardPath[2]))
           ELSE \E l3 \in Index, l2 \in Index :
                   HasEmptyCell(smallAt(gameState, l3, l2))

\* The game is in progress under free play after a move into a small board
\* that the move before had filled.
C29_Witness ==
    /\ outcome = "applied"
    /\ gameState.winner = null
    /\ gameState.activeBoardPath = nullPath
    /\ ply > 0
    /\ AllCellsFilled(smallAt(gameState, lastMove.path[2], lastMove.path[3]))

\* ----------------------------------------------------------------- C30
\* The number of cells that hold a mark.
FilledCells(state) == Cardinality({q \in Paths : cellAt(state, q) # null})

\* C30 (every game terminates): the number of accepted moves equals the
\* number of filled cells, so it is at most 729; and a state in which no
\* move is accepted (the end of a maximal sequence) has winner X, O or
\* DRAW.
C30_GamesTerminate ==
    /\ ply = FilledCells(gameState)
    /\ ply <= 9 * 9 * 9
    /\ (\A move \in Moves : ~isValidMove(gameState, move))
          => gameState.winner \in {"X", "O", "DRAW"}

\* A game has ended: no move is accepted any more, after as many accepted
\* moves as there are marks on the board.
C30_Witness ==
    /\ outcome = "applied"
    /\ gameState.winner \in {"X", "O", "DRAW"}
    /\ \A move \in Moves : ~isValidMove(gameState, move)
    /\ ply = FilledCells(gameState)
    /\ ply > 0


\* ----------------------------------------------------------------- C31
\* The owner of a board agrees with its children: none exactly when no
\* player has a complete line and not all nine children are decided; X or
\* O only with a complete line of that player; DRAW only with all nine
\* children decided.
OwnerAgrees(owner, positionsOf, allDecided) ==
    /\ (owner = null) <=> (LineHolders(positionsOf) = {} /\ ~allDecided)
    /\ owner \in Player => HasLineIn(positionsOf[owner])
    /\ owner = "DRAW" => allDecided

\* C31 (owner consistency): in every state reached through applyMove, the
\* owner of every small board, every medium board and the root agrees
\* with the board's children in the sense above.
C31_OwnerConsistency ==
    /\ OwnerAgrees(gameState.board.owner,
                   [p \in Player |-> OwnedBy(gameState.board, p)],
                   \A l3 \in Index : mediumAt(gameState, l3).owner # null)
    /\ \A l3 \in Index :
          /\ OwnerAgrees(mediumAt(gameState, l3).owner,
                         [p \in Player |->
                             OwnedBy(mediumAt(gameState, l3), p)],
                         \A l2 \in Index :
                             smallAt(gameState, l3, l2).owner # null)
          /\ \A l2 \in Index :
                OwnerAgrees(smallAt(gameState, l3, l2).owner,
                            [p \in Player |->
                                MarksOf(smallAt(gameState, l3, l2), p)],
                            AllCellsFilled(smallAt(gameState, l3, l2)))

\* A drawn game: the root is DRAW with medium boards of both players, and
\* below them there are small boards of a player and undecided ones.
C31_Witness ==
    /\ outcome = "applied"
    /\ gameState.board.owner = "DRAW"
    /\ \E l3 \in Index : mediumAt(gameState, l3).owner = "X"
    /\ \E l3 \in Index : mediumAt(gameState, l3).owner = "O"
    /\ \E l3 \in Index, l2 \in Index :
          smallAt(gameState, l3, l2).owner \in Player
    /\ \E l3 \in Index, l2 \in Index :
          /\ smallAt(gameState, l3, l2).owner = null
          /\ \E l1 \in Index : cellAt(gameState, <<l3, l2, l1>>) # null

\* ----------------------------------------------------------------- C32
\* C32: a board's owner changes from none to X or O only to the player
\* who made the move; and whenever the returned state has winner X or O,
\* the winner is the player who moved last and is not currentPlayer.
C32_OwnerIsTheMover ==
    [][ outcome' = "applied" /\ gameState' # gameState =>
          LET p == lastMove'.player
          IN  /\ gameState.board.owner = null
                    /\ gameState'.board.owner \in Player
                    => gameState'.board.owner = p
              /\ \A l3 \in Index :
                    /\ mediumAt(gameState, l3).owner = null
                          /\ mediumAt(gameState', l3).owner \in Player
                          => mediumAt(gameState', l3).owner = p
                    /\ \A l2 \in Index :
                          smallAt(gameState, l3, l2).owner = null
                          /\ smallAt(gameState', l3, l2).owner \in Player
                          => smallAt(gameState', l3, l2).owner = p
              /\ gameState'.winner \in Player
                    => /\ gameState'.winner = p
                       /\ gameState'.winner # gameState'.currentPlayer
        ]_vars

\* O has just won the game by its own move.
C32_Witness ==
    /\ outcome = "applied"
    /\ gameState.winner = "O"
    /\ lastMove.player = "O"
    /\ gameState.currentPlayer = "X"

\* ----------------------------------------------------------------- C33
\* The number of cells that hold the mark of p.
CellsOf(state, p) == Cardinality({q \in Paths : cellAt(state, q) = p})

\* C33 (mark counts): in every state reached from the initial state
\* through applyMove, the number of X cells minus the number of O cells is
\* 0 or 1, and currentPlayer is X exactly when the two numbers are equal.
C33_MarkCounts ==
    LET xs == CellsOf(gameState, "X")
        os == CellsOf(gameState, "O")
    IN  /\ xs - os \in {0, 1}
        /\ (gameState.currentPlayer = "X") <=> (xs = os)

\* Both cases: O is to move after X's fifth mark, or X after O's fifth.
C33_Witness ==
    /\ outcome = "applied"
    /\ CellsOf(gameState, "X") = 5
    /\ \/ CellsOf(gameState, "O") = 4 /\ gameState.currentPlayer = "O"
       \/ CellsOf(gameState, "O") = 5 /\ gameState.currentPlayer = "X"


\* ----------------------------------------------------------------- C34
\* C34: when two synchronized peers (equal states, connected, edit mode
\* off) exchange only MOVE messages over a reliable ordered channel, at
\* most one MOVE is in flight at any time, every delivered MOVE is valid
\* on the receiver, and after each delivery both peers hold the same
\* game state.
C34_MovesKeepPeersInStep ==
    [][ /\ Len(channel'["HOST"]) + Len(channel'["GUEST"]) <= 1
        /\ netLast'.op = "deliver" =>
              /\ netLast'.msg.type = "MOVE"
              /\ isValidMove(peerState[netLast'.peer], netLast'.msg.payload)
              /\ peerState'["HOST"] = peerState'["GUEST"]
      ]_netAll

\* The second of two moves made since the start has been delivered, one
\* by each participant.
C34_Witness ==
    /\ netLast.op = "deliver"
    /\ netLast.msg.type = "MOVE"
    /\ netLast.result = "changed"
    /\ used = 2
    /\ NothingInFlight
    /\ peerState["HOST"] = peerState["GUEST"]

\* ----------------------------------------------------------------- C35
\* C35: applyMove preserves the gameName field: a name set through
\* handleNameChange is still present, unchanged, in the state returned by
\* every subsequent accepted move.
C35_MoveKeepsGameName ==
    [][ /\ netLast'.op = "click"
        /\ netLast'.result = "moved"
        /\ "gameName" \in DOMAIN peerState[netLast'.peer]
        => /\ "gameName" \in DOMAIN peerState'[netLast'.peer]
           /\ peerState'[netLast'.peer].gameName
                 = peerState[netLast'.peer].gameName
      ]_netAll

\* ----------------------------------------------------------------- C36
\* C36: an edit-mode click changes only the addressed cell, setting it to
\* the selected edit player even if it was occupied; it leaves
\* currentPlayer, activeBoardPath, winner and every board owner unchanged
\* and sends no message to the peer.
C36_EditClickSetsTheCell ==
    [][ netLast'.op = "edit" =>
          LET p      == netLast'.peer
              path   == netLast'.msg.payload.path
              before == peerState[p]
              after  == peerState'[p]
          IN  /\ cellAt(after, path) = netLast'.msg.payload.player
              /\ \A q \in Paths \ {path} :
                    cellAt(after, q) = cellAt(before, q)
              /\ after.currentPlayer = before.currentPlayer
              /\ after.activeBoardPath = before.activeBoardPath
              /\ after.winner = before.winner
              /\ after.board.owner = before.board.owner
              /\ \A l3 \in Index :
                    /\ mediumAt(after, l3).owner = mediumAt(before, l3).owner
                    /\ \A l2 \in Index :
                          smallAt(after, l3, l2).owner
                              = smallAt(before, l3, l2).owner
              /\ peerState'[Other(p)] = peerState[Other(p)]
              /\ channel' = channel
      ]_netAll

====
